---- MODULE Spec2Model ----
(***************************************************************************)
(* AURAtrac Lite: the counter core (CounterCore), the control panel that   *)
(* feeds it Settings objects, and the overlay that drains its              *)
(* notifications.  Times are milliseconds, as time.time() * 1000.          *)
(***************************************************************************)
EXTENDS Integers, Sequences, FiniteSets, TLC

\* ------------------------------------------------------------- bounds
\* The first clock reading of a run (stands for the epoch time at startup;
\* it is larger than every idle window and the debounce window, as the
\* real clock is).
Epoch == 1000
\* Time passes in steps of one or two GapUnit ms; GapUnit is also the idle
\* window a user may configure, besides 0 (off).
GapUnit == 50
\* The clock stops MaxTicks units after Epoch.
MaxTicks == 4
\* setting_q holds at most MaxSettingQ requests.
MaxSettingQ == 2
\* A handler that notifies runs only while fewer than MaxPending
\* notifications wait for the overlay.
MaxPending == 2
\* The count stays within -MaxBelow .. MaxCount.
MaxCount == 2
MaxBelow == 1
\* At most MaxSeq events are taken between two resets of the bookkeeping.
MaxSeq == 4
\* The session of bursts (SpecBursts) runs for MaxBurstTicks units of the
\* clock and takes at most MaxBurstSeq events between two resets.
MaxBurstTicks == 8
MaxBurstSeq == 5

\* ------------------------------------------------------------- constants
DefaultInputCode == 44
ScrollDebounceMs == 100
WheelUpCode == 10
WheelDownCode == 11
LeftButtonCode == 1

\* ------------------------------------------------------------- data
\* The fields of Settings the core reads (the style fields reach only Tk).
MkSettings(type, code, rapid, amount, idle, paused, cnt) ==
    [input_type |-> type, input_code |-> code, is_rapid_mode |-> rapid,
     amount |-> amount, burst_idle_ms |-> idle, is_paused |-> paused,
     count |-> cnt]

\* Settings(): the dataclass defaults.
DefaultSettings == MkSettings("keyboard", DefaultInputCode, TRUE, 1, 0, FALSE, 0)

Max(a, b) == IF a >= b THEN a ELSE b

\* Entries of update_q.
Msg(type, value) == [type |-> type, value |-> <<value>>]
Status(text) == [type |-> "status", value |-> text]

\* What _handle_input works on: the accumulator fields of the core, and the
\* notifications it has put on update_q so far.
Acc(c, sp, lp, bc) ==
    [count |-> c, sequence_presses |-> sp, last_press_time |-> lp,
     burst_count_tracker |-> bc, out |-> <<>>]

\* (mutant) _update_count without the pause test
update_count_nopause(a, s, delta) ==
    [a EXCEPT !.count = @ + delta,
              !.out = Append(@, Msg("count", a.count + delta))]

\* (mutant) _update_count adds delta twice
update_count_twice(a, s, delta) ==
    IF ~s.is_paused
    THEN [a EXCEPT !.count = @ + 2 * delta,
                   !.out = Append(@, Msg("count", a.count + 2 * delta))]
    ELSE a

\* _update_count(delta) on an accumulator
update_count(a, s, delta) ==
    IF ~s.is_paused
    THEN [a EXCEPT !.count = @ + delta,
                   !.out = Append(@, Msg("count", a.count + delta))]
    ELSE a

\* The bookkeeping and the status of _handle_input's rapid branch
rapid_tail(u, t) ==
    [u EXCEPT !.last_press_time = t,
              !.sequence_presses = 0,
              !.burst_count_tracker = 0,
              !.out = Append(@, Status(<<"Rapid Mode: +1">>))]

\* (mutant) rapid mode that skips an event carrying the timestamp of the
\* one before
handle_rapid_dedup(a, s, t) ==
    rapid_tail(IF t = a.last_press_time THEN a ELSE update_count(a, s, 1), t)

\* _handle_input, step 1: rapid mode
handle_rapid(a, s, t) == rapid_tail(update_count(a, s, 1), t)

\* (mutant) a closing sequence completes a burst even if it had no presses
closed_always(a, s) ==
    [a EXCEPT !.burst_count_tracker = @ + 1,
              !.sequence_presses = 0,
              !.out = Append(@, Status(<<"Burst Completed",
                           a.burst_count_tracker + 1, s.amount>>))]

\* The sequence closes: a burst is completed if it had any presses
closed(a, s) ==
    IF a.sequence_presses > 0
    THEN [a EXCEPT !.burst_count_tracker = @ + 1,
                   !.sequence_presses = 0,
                   !.out = Append(@, Status(<<"Burst Completed",
                                a.burst_count_tracker + 1, s.amount>>))]
    ELSE [a EXCEPT !.sequence_presses = 0]

\* (mutant) the sequence closes without the test that an idle window is set
close_sequence_anyidle(a, s, t) ==
    IF a.last_press_time # 0 /\ t - a.last_press_time > s.burst_idle_ms
    THEN closed(a, s) ELSE a

\* (mutant) a gap of exactly burst_idle_ms closes the sequence
close_sequence_ge(a, s, t) ==
    IF s.burst_idle_ms > 0 /\ a.last_press_time # 0
       /\ t - a.last_press_time >= s.burst_idle_ms
    THEN closed(a, s) ELSE a

\* _handle_input, step 2a: an idle gap longer than burst_idle_ms closes the
\* sequence
close_sequence(a, s, t) ==
    IF s.burst_idle_ms > 0 /\ a.last_press_time # 0
       /\ t - a.last_press_time > s.burst_idle_ms
    THEN closed(a, s) ELSE a

\* (mutant) every event is taken as the first press of its sequence
join_sequence_first(a, t) ==
    [a EXCEPT !.sequence_presses = 1, !.last_press_time = t]

\* _handle_input, step 2b: the event joins the sequence
join_sequence(a, t) ==
    [a EXCEPT !.sequence_presses = @ + 1, !.last_press_time = t]

\* (mutant) multi-burst counts only once more than amount bursts completed
apply_count_gt(a, s) ==
    IF s.burst_idle_ms = 0
    THEN IF a.sequence_presses % s.amount = 0
         THEN LET u == update_count(a, s, 1)
              IN  [u EXCEPT !.out = Append(@, Status(<<"Multi-Click Count", s.amount>>))]
         ELSE a
    ELSE IF s.amount = 1
         THEN IF a.sequence_presses = 1
              THEN LET u == update_count(a, s, 1)
                   IN  [u EXCEPT !.out = Append(@, Status(<<"Burst Count (First Press)">>))]
              ELSE a
         ELSE IF s.amount > 1
                 /\ a.sequence_presses = 1
                 /\ a.burst_count_tracker > s.amount
              THEN LET u == update_count(a, s, 1)
                   IN  [u EXCEPT !.out = Append(@, Status(<<"Multi-Burst Count", s.amount>>)),
                                 !.burst_count_tracker = 0]
              ELSE a

\* (mutant) multi-burst clears burst_count_tracker only when it counted
apply_count_pausedkeep(a, s) ==
    IF s.burst_idle_ms = 0
    THEN IF a.sequence_presses % s.amount = 0
         THEN LET u == update_count(a, s, 1)
              IN  [u EXCEPT !.out = Append(@, Status(<<"Multi-Click Count", s.amount>>))]
         ELSE a
    ELSE IF s.amount = 1
         THEN IF a.sequence_presses = 1
              THEN LET u == update_count(a, s, 1)
                   IN  [u EXCEPT !.out = Append(@, Status(<<"Burst Count (First Press)">>))]
              ELSE a
         ELSE IF s.amount > 1
                 /\ a.sequence_presses = 1
                 /\ a.burst_count_tracker >= s.amount
              THEN LET u == update_count(a, s, 1)
                   IN  [u EXCEPT !.out = Append(@, Status(<<"Multi-Burst Count", s.amount>>)),
                                 !.burst_count_tracker =
                                     IF s.is_paused THEN @ ELSE 0]
              ELSE a

\* (mutant) burst mode clears burst_count_tracker when it counts
apply_count_burstclear(a, s) ==
    IF s.burst_idle_ms = 0
    THEN IF a.sequence_presses % s.amount = 0
         THEN LET u == update_count(a, s, 1)
              IN  [u EXCEPT !.out = Append(@, Status(<<"Multi-Click Count", s.amount>>))]
         ELSE a
    ELSE IF s.amount = 1
         THEN IF a.sequence_presses = 1
              THEN LET u == update_count(a, s, 1)
                   IN  [u EXCEPT !.out = Append(@, Status(<<"Burst Count (First Press)">>)),
                                 !.burst_count_tracker = 0]
              ELSE a
         ELSE IF s.amount > 1
                 /\ a.sequence_presses = 1
                 /\ a.burst_count_tracker >= s.amount
              THEN LET u == update_count(a, s, 1)
                   IN  [u EXCEPT !.out = Append(@, Status(<<"Multi-Burst Count", s.amount>>)),
                                 !.burst_count_tracker = 0]
              ELSE a

\* (mutant) multi-burst does not clear burst_count_tracker when it counts
apply_count_keeptracker(a, s) ==
    IF s.burst_idle_ms = 0
    THEN IF a.sequence_presses % s.amount = 0
         THEN LET u == update_count(a, s, 1)
              IN  [u EXCEPT !.out = Append(@, Status(<<"Multi-Click Count", s.amount>>))]
         ELSE a
    ELSE IF s.amount = 1
         THEN IF a.sequence_presses = 1
              THEN LET u == update_count(a, s, 1)
                   IN  [u EXCEPT !.out = Append(@, Status(<<"Burst Count (First Press)">>))]
              ELSE a
         ELSE IF s.amount > 1
                 /\ a.sequence_presses = 1
                 /\ a.burst_count_tracker >= s.amount
              THEN LET u == update_count(a, s, 1)
                   IN  [u EXCEPT !.out = Append(@, Status(<<"Multi-Burst Count", s.amount>>))]
              ELSE a

\* _handle_input, step 3: the count logic of the three grouped modes
apply_count(a, s) ==
    IF s.burst_idle_ms = 0
    THEN IF a.sequence_presses % s.amount = 0
         THEN LET u == update_count(a, s, 1)
              IN  [u EXCEPT !.out = Append(@, Status(<<"Multi-Click Count", s.amount>>))]
         ELSE a
    ELSE IF s.amount = 1
         THEN IF a.sequence_presses = 1
              THEN LET u == update_count(a, s, 1)
                   IN  [u EXCEPT !.out = Append(@, Status(<<"Burst Count (First Press)">>))]
              ELSE a
         ELSE IF s.amount > 1
                 /\ a.sequence_presses = 1
                 /\ a.burst_count_tracker >= s.amount
              THEN LET u == update_count(a, s, 1)
                   IN  [u EXCEPT !.out = Append(@, Status(<<"Multi-Burst Count", s.amount>>)),
                                 !.burst_count_tracker = 0]
              ELSE a

\* _handle_input as a whole, at clock reading t under the live settings s
handle_input(a, s, t) ==
    IF s.is_rapid_mode
    THEN handle_rapid(a, s, t)
    ELSE LET b == apply_count(join_sequence(close_sequence(a, s, t), t), s)
         IN  [b EXCEPT !.out = Append(@, Msg("sequence_presses", b.sequence_presses))]


\* ------------------------------------------------------------- state
VARIABLES
    now,                 \* the clock, as time.time() * 1000 reads it
    mainpc,              \* where main() is
    workerpc,            \* where CounterCore.run() is
    settings,            \* the Settings object main() creates; the panel,
                         \* the overlay and (at first) the core all hold it
    core_settings,       \* CounterCore.settings: a reference
    count,               \* CounterCore.count
    is_running,          \* CounterCore.is_running
    sequence_presses,    \* CounterCore.sequence_presses
    last_press_time,     \* CounterCore.last_press_time, 0 = never
    burst_count_tracker, \* CounterCore.burst_count_tracker
    last_scroll_time,    \* CounterCore.last_scroll_time, 0 = never
    update_q,            \* CounterCore.update_q
    setting_q,           \* CounterCore.setting_q, of references
    tracking,            \* the tracking hook installed: none/keyboard/mouse
    hotkeys,             \* the five global hotkeys are installed
    run,                 \* observer: the events since the bookkeeping was
                         \* last reset (see RunEvent)
    put_arg,             \* run(): the tuple ("count", self.count) built for
                         \* update_q.put and not yet put (<<>> = none)
    counted_run,         \* observer: whether an event has advanced the
                         \* count in burst mode with no idle gap since
                         \* (see CountedRunEvent)
    hook_frame,          \* the hook thread inside _handle_input: <<>> when
                         \* it is not, <<"call">> at the call of
                         \* _update_count, <<"add", c>> with self.count
                         \* read as c and not yet stored, <<"tail">> past
                         \* _update_count
    serial_counts        \* observer: while the hook thread is inside
                         \* _handle_input, the counts that taking its event
                         \* as a whole, before or after each replacement
                         \* made since it entered, would leave

vars == <<now, mainpc, workerpc, settings, core_settings, count, is_running,
          sequence_presses, last_press_time, burst_count_tracker,
          last_scroll_time, update_q, setting_q, tracking, hotkeys,
          run, put_arg, counted_run, hook_frame, serial_counts>>

\* A reference to a Settings object: the shared one, or a copy made by
\* dataclasses.replace (held by value: nothing else refers to it).
SharedRef == [shared |-> TRUE, val |-> DefaultSettings]
CopyRef(v) == [shared |-> FALSE, val |-> v]
Deref(r) == IF r.shared THEN settings ELSE r.val

\* self.settings as the core reads it
Live == Deref(core_settings)

\* The accumulator fields of the core
CoreAcc == Acc(count, sequence_presses, last_press_time, burst_count_tracker)

\* ------------------------------------------------------------- observer
\* The run observer counts, independently of the core's bookkeeping, the
\* accepted events since sequence_presses/burst_count_tracker were last
\* zeroed by a settings swap or set_count: how many there were (len), by how
\* much they moved the count (adv), when the last one came (lastAt), and how
\* many bursts they form when a gap longer than the idle window (bursts), or
\* at least as long as it (burstsGE), separates two bursts.  ok is FALSE
\* once an event was taken while paused or the live mode fields were edited
\* in place, and the other fields are then kept at 0.  edited is TRUE once
\* the live mode fields were edited in place while sequence_presses or
\* burst_count_tracker was not 0.
FreshRun == [ok |-> TRUE, len |-> 0, adv |-> 0, lastAt |-> 0,
             bursts |-> 0, burstsGE |-> 0, edited |-> FALSE]
BadRun == [FreshRun EXCEPT !.ok = FALSE]

Grouped(s) == ~s.is_rapid_mode /\ s.burst_idle_ms > 0

RunEvent(r, s, t, delta) ==
    IF ~r.ok \/ s.is_paused
    THEN [BadRun EXCEPT !.edited = r.edited]
    ELSE [ok |-> TRUE,
          edited |-> FALSE,
          len |-> r.len + 1,
          adv |-> r.adv + delta,
          lastAt |-> t,
          bursts |-> IF ~Grouped(s) THEN 0
                     ELSE IF r.lastAt = 0 \/ t - r.lastAt > s.burst_idle_ms
                          THEN r.bursts + 1 ELSE r.bursts,
          burstsGE |-> IF ~Grouped(s) THEN 0
                       ELSE IF r.lastAt = 0 \/ t - r.lastAt >= s.burst_idle_ms
                            THEN r.burstsGE + 1 ELSE r.burstsGE]

ModeOf(s) == <<s.is_rapid_mode, s.amount, s.burst_idle_ms>>

\* The counted-run observer follows burst mode (idle window > 0, amount 1):
\* "open" once an event has advanced the count, until two events lie more
\* than the idle window apart ("none"); "reset" when set_count or a settings
\* swap came while it was open; "recounted" (then as "open") when an event
\* advanced the count while it was "reset", no idle gap having passed.
IdleGap(s, lp, t) == lp # 0 /\ t - lp > s.burst_idle_ms

CountedRunEvent(c, s, lp, t, delta) ==
    IF ~(~s.is_rapid_mode /\ s.burst_idle_ms > 0 /\ s.amount = 1)
    THEN c
    ELSE IF delta # 0
         THEN IF c = "reset" /\ ~IdleGap(s, lp, t) THEN "recounted" ELSE "open"
         ELSE IF IdleGap(s, lp, t) THEN "none" ELSE c

CountedRunReset(c) == IF c \in {"open", "recounted"} THEN "reset" ELSE c

\* ------------------------------------------------------------- start
\* load_or_default: the defaults, or what the file holds; amount is clamped,
\* burst_idle_ms is not, count and is_paused are never saved.
TrackedInputs == {<<"keyboard", DefaultInputCode>>, <<"mouse", LeftButtonCode>>,
                  <<"mouse", WheelUpCode>>}
AmountInputs == {0, 1, 2}
IdleInputs == {-1, 0, GapUnit}

load_or_default ==
    {MkSettings(i[1], i[2], r, Max(1, a), w, FALSE, 0) :
        i \in TrackedInputs, r \in BOOLEAN, a \in AmountInputs, w \in IdleInputs}

\* The status _setup_hooks reports for the tracked input
TrackingStatus(s) ==
    IF s.input_type = "keyboard"
    THEN <<Status(<<"Tracking Key", s.input_code>>)>>
    ELSE IF s.input_type = "mouse"
         THEN <<Status(<<"Tracking Mouse", s.input_code>>)>>
         ELSE <<>>

\* CounterCore.__init__ has returned: main() holds settings and the core
Init ==
    /\ now = Epoch
    /\ mainpc = "core"
    /\ workerpc = "new"
    /\ settings \in load_or_default
    /\ core_settings = SharedRef
    /\ count = settings.count
    /\ is_running = TRUE
    /\ sequence_presses = 0
    /\ last_press_time = 0
    /\ burst_count_tracker = 0
    /\ last_scroll_time = 0
    /\ update_q = TrackingStatus(settings)
    /\ setting_q = <<>>
    /\ tracking = settings.input_type
    /\ hotkeys = TRUE
    /\ run = FreshRun
    /\ put_arg = <<>>
    /\ counted_run = "none"
    /\ hook_frame = <<>>
    /\ serial_counts = {}


\* ------------------------------------------------------------- the clock
TickWithin(d, n) ==
    /\ now + d * GapUnit <= Epoch + n * GapUnit
    /\ now' = now + d * GapUnit
    /\ UNCHANGED <<hook_frame, serial_counts, put_arg, counted_run, mainpc, workerpc, settings, core_settings, count,
                   is_running, sequence_presses, last_press_time,
                   burst_count_tracker, last_scroll_time, update_q, setting_q,
                   tracking, hotkeys, run>>

Tick(d) == TickWithin(d, MaxTicks)

\* ------------------------------------------------------------- the hooks
\* self._handle_input() on the core, at the clock reading now, as one of
\* at most n events between two resets of the bookkeeping
HandleInputWithin(n) ==
    LET r == handle_input(CoreAcc, Live, now)
    IN  /\ r.count <= MaxCount
        /\ r.sequence_presses <= n
        /\ run.len < n
        /\ Len(update_q) < MaxPending
        /\ count' = r.count
        /\ sequence_presses' = r.sequence_presses
        /\ last_press_time' = r.last_press_time
        /\ burst_count_tracker' = r.burst_count_tracker
        /\ update_q' = update_q \o r.out
        /\ run' = RunEvent(run, Live, now, r.count - count)
        /\ counted_run' = CountedRunEvent(counted_run, Live, last_press_time,
                                          now, r.count - count)

DoHandleInput == HandleInputWithin(MaxSeq)

KeyEvents == [event_type : {"down", "up"},
              scan_code : {DefaultInputCode, DefaultInputCode + 1}]

\* _key_callback
KeyCallbackWithin(ev, n) ==
    /\ tracking = "keyboard"
    /\ IF ev.event_type = "down" /\ ev.scan_code = Live.input_code
       THEN /\ HandleInputWithin(n)
            /\ UNCHANGED <<hook_frame, serial_counts, put_arg, now, mainpc, workerpc, settings, core_settings,
                           is_running, last_scroll_time, setting_q, tracking, hotkeys>>
       ELSE UNCHANGED vars

KeyCallback(ev) == KeyCallbackWithin(ev, MaxSeq)

ButtonEvents == [kind : {"button"}, event_type : {"down", "up"},
                 button : {"left", "right"}]
WheelEvents == [kind : {"wheel"}, delta : {-1, 1}]

\* button_name_map.get(code)
ButtonName(code) ==
    CASE code = 1 -> "left"
      [] code = 2 -> "middle"
      [] code = 3 -> "right"
      [] code = 4 -> "x"
      [] code = 5 -> "x2"
      [] OTHER -> "none"

\* (mutant) the debounce test also discards at exactly scroll_debounce_ms
WheelAccepted_le == ~(now - last_scroll_time <= ScrollDebounceMs)

\* The wheel branch of _mouse_callback passes its debounce test
WheelAccepted == ~(now - last_scroll_time < ScrollDebounceMs)

\* _mouse_callback
MouseCallback(ev) ==
    /\ tracking = "mouse"
    /\ IF ev.kind = "button"
       THEN IF ev.event_type = "down" /\ ButtonName(Live.input_code) # "none"
               /\ ev.button = ButtonName(Live.input_code)
            THEN /\ DoHandleInput
                 /\ UNCHANGED <<hook_frame, serial_counts, put_arg, now, mainpc, workerpc, settings, core_settings,
                                is_running, last_scroll_time, setting_q,
                                tracking, hotkeys>>
            ELSE UNCHANGED vars
       ELSE IF \/ (ev.delta > 0 /\ Live.input_code = WheelUpCode)
               \/ (ev.delta < 0 /\ Live.input_code = WheelDownCode)
            THEN IF WheelAccepted
                 THEN /\ last_scroll_time' = now
                      /\ DoHandleInput
                      /\ UNCHANGED <<hook_frame, serial_counts, put_arg, now, mainpc, workerpc, settings,
                                     core_settings, is_running, setting_q,
                                     tracking, hotkeys>>
                 ELSE UNCHANGED vars
            ELSE UNCHANGED vars

\* (mutant) a hotkey adjustment that does not look at the pause flag
Adjust_nopause(delta) ==
    /\ count + delta <= MaxCount
    /\ count + delta >= 0 - MaxBelow
    /\ Len(update_q) < MaxPending
    /\ count' = count + delta
    /\ update_q' = Append(update_q, Msg("count", count + delta))
    /\ UNCHANGED <<hook_frame, serial_counts, put_arg, counted_run, now, mainpc, workerpc, settings, core_settings,
                   is_running, sequence_presses, last_press_time,
                   burst_count_tracker, last_scroll_time, setting_q,
                   tracking, hotkeys, run>>

\* self._update_count(delta) from a hotkey
Adjust(delta) ==
    LET u == update_count(CoreAcc, Live, delta)
    IN  /\ u.count <= MaxCount
        /\ u.count >= 0 - MaxBelow
        /\ Len(update_q) < MaxPending
        /\ count' = u.count
        /\ update_q' = update_q \o u.out
        /\ UNCHANGED <<hook_frame, serial_counts, put_arg, counted_run, now, mainpc, workerpc, settings, core_settings,
                       is_running, sequence_presses, last_press_time,
                       burst_count_tracker, last_scroll_time, setting_q,
                       tracking, hotkeys, run>>

\* hotkey '-'
HotkeyMinus == hotkeys /\ Adjust(-1)

\* hotkey '='
HotkeyEquals == hotkeys /\ Adjust(1)

\* (mutant) set_count that leaves the sequence bookkeeping alone
set_count_keepseq(new_count) ==
    /\ Len(update_q) < MaxPending
    /\ count' = new_count
    /\ update_q' = Append(update_q, Msg("count", new_count))
    /\ run' = FreshRun
    /\ counted_run' = CountedRunReset(counted_run)
    /\ UNCHANGED <<hook_frame, serial_counts, put_arg, now, mainpc, workerpc, settings, core_settings, is_running,
                   sequence_presses, burst_count_tracker,
                   last_press_time, last_scroll_time, setting_q,
                   tracking, hotkeys>>

\* set_count(new_count)
set_count(new_count) ==
    /\ Len(update_q) < MaxPending
    /\ count' = new_count
    /\ update_q' = Append(update_q, Msg("count", new_count))
    /\ sequence_presses' = 0
    /\ burst_count_tracker' = 0
    /\ run' = FreshRun
    /\ counted_run' = CountedRunReset(counted_run)
    /\ UNCHANGED <<hook_frame, serial_counts, put_arg, now, mainpc, workerpc, settings, core_settings, is_running,
                   last_press_time, last_scroll_time, setting_q, tracking, hotkeys>>

\* hotkey '0'
HotkeyZero == hotkeys /\ set_count(0)

\* toggle_pause(): flips is_paused of the object self.settings refers to
toggle_pause ==
    /\ Len(update_q) < MaxPending
    /\ IF core_settings.shared
       THEN /\ settings' = [settings EXCEPT !.is_paused = ~@]
            /\ UNCHANGED core_settings
       ELSE /\ core_settings' = [core_settings EXCEPT !.val.is_paused = ~@]
            /\ UNCHANGED settings
    /\ update_q' = Append(update_q, Msg("paused", ~Live.is_paused))
    /\ UNCHANGED <<hook_frame, serial_counts, put_arg, counted_run, now, mainpc, workerpc, count, is_running, sequence_presses,
                   last_press_time, burst_count_tracker, last_scroll_time,
                   setting_q, tracking, hotkeys, run>>

\* hotkey '9'
HotkeyNine == hotkeys /\ toggle_pause

\* ------------------------------------------------------------- the worker
\* run(), up to the loop.  (The bound on the waiting notifications holds
\* the worker back only while the program runs: after stop() the overlay
\* polls no more, and the worker has at most one pass left.)
WorkerBegin ==
    /\ workerpc = "started"
    /\ Len(update_q) < MaxPending \/ ~is_running
    /\ update_q' = Append(update_q, Status(<<"Core started. Waiting for input...">>))
    /\ workerpc' = "loop"
    /\ UNCHANGED <<hook_frame, serial_counts, put_arg, counted_run, now, mainpc, settings, core_settings, count, is_running,
                   sequence_presses, last_press_time, burst_count_tracker,
                   last_scroll_time, setting_q, tracking, hotkeys,
                   run>>

\* (mutant) the loop body takes the request queued last
loop_body_lifo ==
    IF setting_q # <<>>
    THEN LET new_settings == setting_q[Len(setting_q)]
             s == Deref(new_settings)
         IN  /\ Len(update_q) < MaxPending \/ ~is_running
             /\ setting_q' = SubSeq(setting_q, 1, Len(setting_q) - 1)
             /\ core_settings' = new_settings
             /\ count' = s.count
             /\ sequence_presses' = 0
             /\ burst_count_tracker' = 0
             /\ tracking' = s.input_type
             /\ hotkeys' = TRUE
             /\ update_q' = update_q \o TrackingStatus(s)
                              \o <<Msg("count", s.count),
                                   Msg("paused", s.is_paused)>>
             /\ run' = FreshRun
             /\ counted_run' = CountedRunReset(counted_run)
             /\ UNCHANGED <<hook_frame, serial_counts, put_arg, now, mainpc, settings, is_running,
                            last_press_time, last_scroll_time>>
    ELSE UNCHANGED <<hook_frame, serial_counts, put_arg, counted_run, now, mainpc, settings, core_settings, count,
                     is_running, sequence_presses, last_press_time,
                     burst_count_tracker, last_scroll_time, update_q,
                     setting_q, tracking, hotkeys, run>>

\* run(): the body of the loop; a queued Settings replaces the live one
loop_body ==
    IF setting_q # <<>>
    THEN LET new_settings == Head(setting_q)
             s == Deref(new_settings)
         IN  /\ Len(update_q) < MaxPending \/ ~is_running
             /\ setting_q' = Tail(setting_q)
             /\ core_settings' = new_settings
             /\ count' = s.count
             /\ sequence_presses' = 0
             /\ burst_count_tracker' = 0
             /\ tracking' = s.input_type
             /\ hotkeys' = TRUE
             /\ update_q' = update_q \o TrackingStatus(s)
                              \o <<Msg("count", s.count),
                                   Msg("paused", s.is_paused)>>
             /\ run' = FreshRun
             /\ counted_run' = CountedRunReset(counted_run)
             /\ UNCHANGED <<hook_frame, serial_counts, put_arg, now, mainpc, settings, is_running,
                            last_press_time, last_scroll_time>>
    ELSE UNCHANGED <<hook_frame, serial_counts, put_arg, counted_run, now, mainpc, settings, core_settings, count,
                     is_running, sequence_presses, last_press_time,
                     burst_count_tracker, last_scroll_time, update_q,
                     setting_q, tracking, hotkeys, run>>

\* run(): the loop test finds is_running set, and the body runs.  The test
\* reads is_running alone, which only stop() writes, so it is taken together
\* with the body here; stop() decides whether it came between the two.
WorkerLoop ==
    /\ workerpc = "loop"
    /\ is_running
    /\ UNCHANGED workerpc
    /\ loop_body

\* (mutant) the late pass goes round again without testing is_running
WorkerLate_again ==
    /\ workerpc = "body"
    /\ workerpc' = "body"
    /\ loop_body

\* run(): the body of a pass whose loop test came before stop()
WorkerLate ==
    /\ workerpc = "body"
    /\ workerpc' = "loop"
    /\ loop_body

\* run(): the loop test finds is_running cleared
WorkerExit ==
    /\ workerpc = "loop"
    /\ ~is_running
    /\ workerpc' = "exited"
    /\ UNCHANGED <<hook_frame, serial_counts, put_arg, counted_run, now, mainpc, settings, core_settings, count, is_running,
                   sequence_presses, last_press_time, burst_count_tracker,
                   last_scroll_time, update_q, setting_q, tracking,
                   hotkeys, run>>

\* The count an event leaves when _handle_input runs as a whole on the count
\* c, the bookkeeping sp and bc, and the settings s
SerialCount(c, sp, bc, s) ==
    handle_input(Acc(c, sp, last_press_time, bc), s, now).count

\* observer: the hook thread enters _handle_input; a replacement the worker
\* is in the middle of may be ordered before or after the event
SerialAtCall ==
    IF workerpc \in {"swap", "report"}
    THEN {count, SerialCount(count, 0, 0, Live)}
    ELSE {SerialCount(count, sequence_presses, burst_count_tracker, Live)}

\* observer: the worker replaces the settings by r while the hook thread is
\* inside _handle_input: the event is ordered before the replacement, which
\* overwrites the count, or after it
SerialAfterSwap(r) ==
    IF hook_frame = <<>> THEN serial_counts
    ELSE {Deref(r).count, SerialCount(Deref(r).count, 0, 0, Deref(r))}

\* _key_callback and _handle_input lines 127-132 on the hook thread: the
\* event is the tracked key going down, the live settings read rapid mode,
\* and _update_count(1) is called
HookCall(ev) ==
    /\ tracking = "keyboard"
    /\ ev.event_type = "down" /\ ev.scan_code = Live.input_code
    /\ hook_frame = <<>>
    /\ Live.is_rapid_mode
    /\ count < MaxCount
    /\ run.len < MaxSeq
    /\ hook_frame' = <<"call">>
    /\ serial_counts' = SerialAtCall
    /\ UNCHANGED <<put_arg, counted_run, now, mainpc, workerpc, settings,
                   core_settings, count, is_running, sequence_presses,
                   last_press_time, burst_count_tracker, last_scroll_time,
                   update_q, setting_q, tracking, hotkeys, run>>

\* _update_count lines 122-123 on the hook thread: the pause test, and the
\* read of self.count that "+=" starts with
HookLoad ==
    /\ hook_frame = <<"call">>
    /\ count < MaxCount
    /\ hook_frame' = IF Live.is_paused THEN <<"tail">> ELSE <<"add", count>>
    /\ UNCHANGED <<serial_counts, put_arg, counted_run, now, mainpc, workerpc,
                   settings, core_settings, count, is_running,
                   sequence_presses, last_press_time, burst_count_tracker,
                   last_scroll_time, update_q, setting_q, tracking, hotkeys,
                   run>>

\* _update_count lines 123-124 and _handle_input lines 133-137 on the hook
\* thread: the sum is stored and notified, and the rapid branch ends
HookStore ==
    /\ hook_frame # <<>> /\ hook_frame[1] \in {"add", "tail"}
    /\ Len(update_q) < MaxPending
    /\ LET u == IF hook_frame[1] = "add"
                THEN [CoreAcc EXCEPT !.count = hook_frame[2] + 1,
                                     !.out = <<Msg("count", hook_frame[2] + 1)>>]
                ELSE CoreAcc
           r == rapid_tail(u, now)
       IN  /\ count' = r.count
           /\ sequence_presses' = r.sequence_presses
           /\ last_press_time' = r.last_press_time
           /\ burst_count_tracker' = r.burst_count_tracker
           /\ update_q' = update_q \o r.out
           /\ run' = RunEvent(run, Live, now, r.count - count)
           /\ counted_run' = CountedRunEvent(counted_run, Live, last_press_time,
                                             now, r.count - count)
    /\ hook_frame' = <<>>
    /\ serial_counts' = {}
    /\ UNCHANGED <<put_arg, now, mainpc, workerpc, settings, core_settings,
                   is_running, last_scroll_time, setting_q, tracking, hotkeys>>

\* run(), lines 241-243, as the worker thread executes them: the request is
\* taken, self.settings and self.count are assigned
SwapTake ==
    /\ workerpc = "loop"
    /\ is_running
    /\ setting_q # <<>>
    /\ workerpc' = "swap"
    /\ setting_q' = Tail(setting_q)
    /\ core_settings' = Head(setting_q)
    /\ count' = Deref(Head(setting_q)).count
    /\ serial_counts' = SerialAfterSwap(Head(setting_q))
    /\ UNCHANGED <<hook_frame, put_arg, counted_run, now, mainpc, settings, is_running, sequence_presses,
                   last_press_time, burst_count_tracker, last_scroll_time,
                   update_q, tracking, hotkeys, run>>

\* run(), lines 244-247 up to the call of put: the sequence state is zeroed,
\* the hooks are set up again and the tuple ("count", self.count) is built
SwapFinish ==
    /\ workerpc = "swap"
    /\ Len(update_q) < MaxPending
    /\ workerpc' = "report"
    /\ sequence_presses' = 0
    /\ burst_count_tracker' = 0
    /\ tracking' = Live.input_type
    /\ hotkeys' = TRUE
    /\ update_q' = update_q \o TrackingStatus(Live)
    /\ put_arg' = <<Msg("count", count)>>
    /\ run' = FreshRun
    /\ counted_run' = CountedRunReset(counted_run)
    /\ UNCHANGED <<hook_frame, serial_counts, now, mainpc, settings, core_settings, count, is_running,
                   setting_q, last_press_time, last_scroll_time>>

\* run(), lines 247-248: the tuple is put, then the pause flag as it reads now
SwapReport ==
    /\ workerpc = "report"
    /\ Len(update_q) < MaxPending
    /\ workerpc' = "loop"
    /\ update_q' = update_q \o put_arg \o <<Msg("paused", Live.is_paused)>>
    /\ put_arg' = <<>>
    /\ UNCHANGED <<hook_frame, serial_counts, counted_run, now, mainpc, settings, core_settings, count, is_running,
                   sequence_presses, last_press_time, burst_count_tracker,
                   last_scroll_time, setting_q, tracking, hotkeys, run>>

\* ------------------------------------------------------------- main and Tk
\* ControlPanel.apply_inputs with the Tk variables reading r, a, i: edits the
\* shared object in place and queues a reference to it
apply_inputs(r, a, i) ==
    /\ Len(setting_q) < MaxSettingQ
    /\ settings' = [settings EXCEPT !.is_rapid_mode = r,
                                    !.amount = Max(1, a),
                                    !.burst_idle_ms = Max(0, i)]
    /\ setting_q' = Append(setting_q, SharedRef)
    /\ run' = IF core_settings.shared /\ ModeOf(settings') # ModeOf(settings)
              THEN [BadRun EXCEPT !.edited = \/ run.edited
                                            \/ sequence_presses > 0
                                            \/ burst_count_tracker > 0]
              ELSE run
    /\ UNCHANGED <<hook_frame, serial_counts, put_arg, counted_run, now, workerpc, core_settings, count, is_running,
                   sequence_presses, last_press_time, burst_count_tracker,
                   last_scroll_time, update_q, tracking, hotkeys>>

\* main(): ControlPanel(...), whose Tk variables start at the settings' values
PanelInit ==
    /\ mainpc = "core"
    /\ mainpc' = "panel"
    /\ apply_inputs(settings.is_rapid_mode, settings.amount, settings.burst_idle_ms)

\* main(): core.start(), root.mainloop()
Start ==
    /\ mainpc = "panel"
    /\ mainpc' = "mainloop"
    /\ workerpc' = "started"
    /\ UNCHANGED <<hook_frame, serial_counts, put_arg, counted_run, now, settings, core_settings, count, is_running,
                   sequence_presses, last_press_time, burst_count_tracker,
                   last_scroll_time, update_q, setting_q, tracking,
                   hotkeys, run>>

\* _check_pending_apply after an edit of the tracking widgets
ApplyInputs(r, a, i) ==
    /\ mainpc = "mainloop"
    /\ UNCHANGED mainpc
    /\ apply_inputs(r, a, i)

\* the Reset Count button: update_settings(replace(self.settings, count=0))
ResetButton ==
    /\ mainpc = "mainloop"
    /\ Len(setting_q) < MaxSettingQ
    /\ setting_q' = Append(setting_q, CopyRef([settings EXCEPT !.count = 0]))
    /\ UNCHANGED <<hook_frame, serial_counts, put_arg, counted_run, now, mainpc, workerpc, settings, core_settings, count,
                   is_running, sequence_presses, last_press_time,
                   burst_count_tracker, last_scroll_time, update_q, tracking, hotkeys, run>>

\* the Pause/Resume button
PauseButton == mainpc = "mainloop" /\ toggle_pause

\* Overlay._poll_core_updates: drains update_q
OverlayPoll ==
    /\ mainpc = "mainloop"
    /\ update_q # <<>>
    /\ update_q' = <<>>
    /\ UNCHANGED <<hook_frame, serial_counts, put_arg, counted_run, now, mainpc, workerpc, settings, core_settings, count,
                   is_running, sequence_presses, last_press_time,
                   burst_count_tracker, last_scroll_time, setting_q, tracking, hotkeys, run>>

\* ControlPanel._on_close, confirmed (or the quit hotkey, once polled)
OnClose ==
    /\ mainpc = "mainloop"
    /\ mainpc' = "quit"
    /\ UNCHANGED <<hook_frame, serial_counts, put_arg, counted_run, now, workerpc, settings, core_settings, count, is_running,
                   sequence_presses, last_press_time, burst_count_tracker,
                   last_scroll_time, update_q, setting_q, tracking,
                   hotkeys, run>>

\* main(): core.stop(); the worker is before its loop test, or past it
Stop ==
    /\ mainpc = "quit"
    /\ mainpc' = "stopped"
    /\ is_running' = FALSE
    /\ tracking' = "none"
    /\ hotkeys' = FALSE
    /\ workerpc' \in IF workerpc = "loop" THEN {"loop", "body"} ELSE {workerpc}
    /\ UNCHANGED <<hook_frame, serial_counts, put_arg, counted_run, now, settings, core_settings, count,
                   sequence_presses, last_press_time, burst_count_tracker,
                   last_scroll_time, update_q, setting_q, run>>

\* main(): control.save_settings(), which applies the inputs once more
FinalSave(r, a, i) ==
    /\ mainpc = "stopped"
    /\ mainpc' = "done"
    /\ apply_inputs(r, a, i)

\* ------------------------------------------------------------- the system
\* The tracked key, and the reset and pause hotkeys
KeyNext ==
    \/ \E ev \in KeyEvents : KeyCallback(ev)
    \/ HotkeyZero
    \/ HotkeyNine

\* main() up to the main loop, the worker, and the overlay's poll
RunNext ==
    \/ PanelInit
    \/ Start
    \/ WorkerBegin
    \/ WorkerLoop
    \/ OverlayPoll
    \/ PauseButton

\* The user adjusts the count, edits the configuration (with no idle
\* window), or resets from the panel
ConfigNext ==
    \/ HotkeyMinus
    \/ HotkeyEquals
    \/ \E r \in BOOLEAN, a \in AmountInputs, i \in {-1, 0} : ApplyInputs(r, a, i)
    \/ ResetButton

\* The user quits
QuitNext ==
    \/ OnClose
    \/ Stop
    \/ WorkerLate
    \/ WorkerExit
    \/ \E r \in BOOLEAN, a \in AmountInputs, i \in {-1, 0} : FinalSave(r, a, i)

\* No settings file: the program starts from the defaults, which track a key
\* and set no idle window
InitDefault == Init /\ settings = DefaultSettings

\* The program in use, within one reading of the clock: the tracked key, the
\* hotkeys and the control panel
Next == KeyNext \/ RunNext \/ ConfigNext

Spec == InitDefault /\ [][Next]_vars

\* A session in which time passes and the configuration stays as loaded
TimedNext ==
    \/ \E d \in 1..2 : Tick(d)
    \/ \E ev \in ButtonEvents \cup WheelEvents : MouseCallback(ev)
    \/ KeyNext
    \/ RunNext

SpecTimed == Init /\ [][TimedNext]_vars

\* The program from start to exit, within one reading of the clock
QuitSpecNext ==
    \/ KeyNext
    \/ RunNext
    \/ \E r \in BOOLEAN, a \in AmountInputs, i \in {-1, 0} : ApplyInputs(r, a, i)
    \/ QuitNext

SpecQuit == InitDefault /\ [][QuitSpecNext]_vars

\* The same, with the worker thread scheduled again and again: run() starts,
\* finishes the pass it is in, and comes to its loop test
SpecQuitFair ==
    /\ SpecQuit
    /\ WF_vars(WorkerBegin)
    /\ WF_vars(WorkerLate)
    /\ WF_vars(WorkerExit)

\* The program in use, with the worker's replacement of the settings taken
\* in the steps between which the other threads may run
StepsNext ==
    \/ KeyNext
    \/ HotkeyMinus
    \/ HotkeyEquals
    \/ PanelInit
    \/ Start
    \/ WorkerBegin
    \/ SwapTake
    \/ SwapFinish
    \/ SwapReport
    \/ OverlayPoll
    \/ PauseButton
    \/ \E r \in BOOLEAN, a \in AmountInputs, i \in {-1, 0} : ApplyInputs(r, a, i)

SpecSteps == InitDefault /\ [][StepsNext]_vars

\* The program in use in rapid mode, with the hook thread's handling of an
\* event and the worker's replacement both taken in steps.  (The keyboard
\* library calls the key hook and the hotkeys' callbacks from one thread:
\* a hotkey is handled when the hook thread is outside _handle_input.)
RaceNext ==
    \/ \E ev \in KeyEvents : HookCall(ev)
    \/ HookLoad
    \/ HookStore
    \/ hook_frame = <<>> /\ HotkeyZero
    \/ hook_frame = <<>> /\ HotkeyNine
    \/ PanelInit
    \/ Start
    \/ WorkerBegin
    \/ SwapTake
    \/ SwapFinish
    \/ SwapReport
    \/ OverlayPoll
    \/ ResetButton

SpecRace == InitDefault /\ [][RaceNext]_vars

\* The control panel in use while the worker runs: the user edits and
\* resets, the worker thread and the overlay's timer are scheduled again and
\* again
ConfigNext2 ==
    \/ PanelInit
    \/ Start
    \/ WorkerBegin
    \/ WorkerLoop
    \/ OverlayPoll
    \/ \E r \in BOOLEAN, a \in AmountInputs, i \in {-1, 0} : ApplyInputs(r, a, i)
    \/ ResetButton

SpecConfigFair ==
    /\ InitDefault
    /\ [][ConfigNext2]_vars
    /\ WF_vars(PanelInit)
    /\ WF_vars(Start)
    /\ WF_vars(WorkerBegin)
    /\ WF_vars(WorkerLoop)
    /\ WF_vars(OverlayPoll)

\* A settings file that selects multi-burst mode: two bursts per count
InitMultiBurst ==
    Init /\ settings = MkSettings("keyboard", DefaultInputCode, FALSE, 2,
                                  GapUnit, FALSE, 0)

\* A longer session of bursts on the tracked key, with the configuration as
\* loaded
BurstsNext ==
    \/ \E d \in 1..2 : TickWithin(d, MaxBurstTicks)
    \/ \E ev \in KeyEvents : KeyCallbackWithin(ev, MaxBurstSeq)
    \/ HotkeyZero
    \/ HotkeyNine
    \/ RunNext

SpecBursts == InitMultiBurst /\ [][BurstsNext]_vars

\* ------------------------------------------------------------- properties
\* A step of the tracked-input callbacks
InputStep ==
    \/ \E ev \in KeyEvents : KeyCallback(ev)
    \/ \E ev \in ButtonEvents \cup WheelEvents : MouseCallback(ev)

\* The worker applies a queued Settings
SwapStep == (WorkerLoop \/ WorkerLate) /\ setting_q # <<>>

\* The notifications a step appends to update_q
Appended == SubSeq(update_q', Len(update_q) + 1, Len(update_q'))

NoCountIn(q) == \A k \in 1..Len(q) : q[k].type # "count"

IsStatus(m, text) == m.type = "status" /\ m.value[1] = text

MultiClick(s) == ~s.is_rapid_mode /\ s.burst_idle_ms = 0
Burst(s) == ~s.is_rapid_mode /\ s.burst_idle_ms > 0 /\ s.amount = 1
MultiBurst(s) == ~s.is_rapid_mode /\ s.burst_idle_ms > 0 /\ s.amount > 1

\* C1 (as claimed): when the worker applies a Settings object queued by a
\* configuration edit (apply_inputs queues the shared object; only the reset
\* button queues a copy), the count after the swap is the count before it.
C1_EditKeepsCount ==
    [][(SwapStep /\ Head(setting_q).shared) => count' = count]_vars

\* C2: in rapid mode, over any run of events taken unpaused since the
\* bookkeeping was last reset (the count is 0 then), every event moved the
\* count by one: the count is the number of events, whatever their times.
C2_RapidCountsEveryEvent ==
    (run.ok /\ Live.is_rapid_mode) => (run.adv = run.len /\ count = run.len)

C2_Witness ==
    /\ run.ok /\ Live.is_rapid_mode
    /\ run.len = 2 /\ count = 2
    /\ now > Epoch

\* C3: in multi-click mode (idle window 0, amount N), over any run of events
\* taken unpaused from sequence_presses = 0, sequence_presses is the number
\* of events and the count has advanced (number of events) div N times, so
\* it advances exactly on the events that bring sequence_presses to a
\* multiple of N, whatever the times of the events.
C3_MultiClickEveryNth ==
    (run.ok /\ MultiClick(Live)) =>
        /\ sequence_presses = run.len
        /\ run.adv = run.len \div Live.amount
        /\ count = run.adv

C3_Witness ==
    /\ run.ok /\ MultiClick(Live) /\ Live.amount = 2
    /\ run.len = 4 /\ count = 2
    /\ now >= Epoch + 3 * GapUnit

\* C4 (as claimed): in burst mode (idle window T > 0, amount 1) the count
\* advances once per run of events, where a gap of T or more starts a new run.
C4_BurstGapAtLeastT ==
    (run.ok /\ Burst(Live)) => run.adv = run.burstsGE

\* C4 (amended): in burst mode the count advances once per run of events,
\* where only a gap longer than T starts a new run; a gap of exactly T
\* continues the run.
C4_BurstGapOverT ==
    (run.ok /\ Burst(Live)) => (run.adv = run.bursts /\ count = run.adv)

C4_Witness ==
    /\ run.ok /\ Burst(Live)
    /\ run.len = 4 /\ run.bursts = 2 /\ count = 2

\* C5 (as claimed): in multi-burst mode (idle window T > 0, amount N > 1),
\* with bursts separated by gaps of T or more, the count has not advanced
\* during the first N bursts, and during burst N+1 it has advanced once and
\* burst_count_tracker is 0.
C5_MultiBurstGapAtLeastT ==
    (run.ok /\ MultiBurst(Live)) =>
        /\ run.burstsGE <= Live.amount => run.adv = 0
        /\ run.burstsGE = Live.amount + 1 =>
               (run.adv = 1 /\ burst_count_tracker = 0)

\* C5 (amended): the same with bursts separated by gaps longer than T.
C5_MultiBurstGapOverT ==
    (run.ok /\ MultiBurst(Live)) =>
        /\ run.bursts <= Live.amount => run.adv = 0
        /\ run.bursts = Live.amount + 1 =>
               (run.adv = 1 /\ burst_count_tracker = 0)
        /\ count = run.adv

C5_Witness ==
    /\ run.ok /\ MultiBurst(Live) /\ Live.amount = 2
    /\ run.bursts = 3 /\ run.len = 4 /\ count = 1
    /\ burst_count_tracker = 0

\* C6: an input event taken while paused leaves the count as it was and puts
\* no count notification on update_q, in every mode.
C6_PausedEventsDoNotCount ==
    [][(Live.is_paused /\ InputStep) =>
           (count' = count /\ NoCountIn(Appended))]_vars

\* a rapid-mode event was taken while paused: its status is on the queue
\* with no count notification before it
C6_Witness ==
    /\ Live.is_paused /\ Live.is_rapid_mode
    /\ last_press_time > Epoch
    /\ Len(update_q) = 1
    /\ IsStatus(update_q[1], "Rapid Mode: +1")

\* C7: what an input event does to sequence_presses, burst_count_tracker
\* and last_press_time is what the same event would do with the pause flag
\* the other way round (and any count); toggling the pause flag changes
\* neither the count nor the bookkeeping.
C7_BookkeepingIgnoresPause ==
    [][/\ (InputStep /\ ~UNCHANGED vars) =>
              LET o == handle_input(
                           Acc(0, sequence_presses, last_press_time,
                               burst_count_tracker),
                           [Live EXCEPT !.is_paused = ~@], now)
              IN  /\ sequence_presses' = o.sequence_presses
                  /\ burst_count_tracker' = o.burst_count_tracker
                  /\ last_press_time' = o.last_press_time
       /\ (HotkeyNine \/ PauseButton) =>
              UNCHANGED <<count, sequence_presses, burst_count_tracker,
                          last_press_time>>]_vars

\* the multi-burst threshold was met while paused: the status is on the
\* queue with no count notification before it, and the tracker is back at 0
C7_Witness ==
    /\ Live.is_paused /\ MultiBurst(Live)
    /\ burst_count_tracker = 0 /\ sequence_presses = 1
    /\ \E k \in 1..Len(update_q) :
           /\ IsStatus(update_q[k], "Multi-Burst Count")
           /\ k > 1 => update_q[k - 1].type # "count"

\* C8 (as claimed): no step taken while paused changes the count.
C8_PausedFreezesCount ==
    [][Live.is_paused => count' = count]_vars

\* C8 (amended): a step taken while paused changes the count only if it is
\* set_count (the reset hotkey) or the worker applying a queued Settings;
\* input events and the increment/decrement hotkeys never do.
C8_PausedOnlyOverwrites ==
    [][(Live.is_paused /\ count' # count) => (HotkeyZero \/ SwapStep)]_vars

\* a multi-click event that would have counted was taken while paused
C8_Witness ==
    /\ Live.is_paused /\ MultiClick(Live) /\ count = 1
    /\ \E k \in 1..Len(update_q) :
           /\ IsStatus(update_q[k], "Multi-Click Count")
           /\ k > 1 => update_q[k - 1].type # "count"

\* C9: a matching wheel event less than ScrollDebounceMs after the last
\* accepted one changes nothing at all; one that comes ScrollDebounceMs or
\* more after it is accepted (the callback can take its step): it sets
\* last_scroll_time and is classified once.  Key and mouse-button
\* events never touch the debounce clock and, when they match, are classified.
WheelUp == [kind |-> "wheel", delta |-> 1]

Classified ==
    LET r == handle_input(CoreAcc, Live, now)
    IN  /\ count' = r.count
        /\ sequence_presses' = r.sequence_presses
        /\ burst_count_tracker' = r.burst_count_tracker
        /\ last_press_time' = now
        /\ update_q' = update_q \o r.out

\* a matching wheel event is due: the debounce time has passed since the last
\* accepted one (exactly ScrollDebounceMs is enough) and the model's bounds
\* leave room for one more classified event
WheelDue ==
    /\ tracking = "mouse" /\ Live.input_code = WheelUpCode
    /\ now - last_scroll_time >= ScrollDebounceMs
    /\ handle_input(CoreAcc, Live, now).count <= MaxCount
    /\ handle_input(CoreAcc, Live, now).sequence_presses <= MaxSeq
    /\ run.len < MaxSeq
    /\ Len(update_q) < MaxPending

C9_WheelDebounce ==
    /\ [](WheelDue => ENABLED <<MouseCallback(WheelUp)>>_vars)
    /\ [][/\ (MouseCallback(WheelUp) /\ Live.input_code = WheelUpCode) =>
              IF now - last_scroll_time < ScrollDebounceMs
              THEN UNCHANGED vars
              ELSE last_scroll_time' = now /\ Classified
          /\ ((\E ev \in KeyEvents : KeyCallback(ev))
              \/ (\E ev \in ButtonEvents : MouseCallback(ev))) =>
              /\ last_scroll_time' = last_scroll_time
              /\ UNCHANGED vars \/ Classified]_vars

\* two wheel events 2 * GapUnit = 100 ms apart were both classified, and a
\* third one now would be discarded
C9_Witness ==
    /\ tracking = "mouse" /\ Live.input_code = WheelUpCode
    /\ run.ok /\ run.len = 2
    /\ last_scroll_time = Epoch + 2 * GapUnit
    /\ now = last_scroll_time + GapUnit

\* C10: sequence_presses and burst_count_tracker are 0 right after the
\* worker applies a queued Settings (the panel's first request carries the
\* values already live) and right after set_count; in multi-click mode the
\* count then advances on the amount-th event after the reset.
C10_ResetsClearSequence ==
    /\ [][(SwapStep \/ HotkeyZero) =>
              (sequence_presses' = 0 /\ burst_count_tracker' = 0)]_vars
    /\ [](run.ok /\ MultiClick(Live) => run.adv = run.len \div Live.amount)

\* one event into a multi-click sequence of 2 the worker applied the panel's
\* request: the event's notification and the swap's are on the queue
C10_Witness ==
    /\ MultiClick(Live) /\ Live.amount = 2
    /\ sequence_presses = 0
    /\ Len(update_q) = 4
    /\ update_q[1].type = "sequence_presses" /\ update_q[1].value[1] = 1
    /\ update_q[4].type = "paused"

\* C11 (as claimed): no event is classified under mode fields (rapid flag,
\* amount, idle window) that were changed after sequence_presses or
\* burst_count_tracker became non-zero, unless a swap by the worker (or
\* set_count) has zeroed them since.
C11_EditWaitsForSwap ==
    [][(InputStep /\ ~UNCHANGED vars) => ~run.edited]_vars

\* C12 (as claimed): the operations on the accumulator and the live Settings
\* run one at a time: while the worker is inside a settings replacement
\* (between its assignments), no input event is classified and no set_count,
\* toggle_pause, increment or decrement runs.
C12_OneAtATime ==
    [][(workerpc \in {"swap", "report"}) =>
          ~((InputStep /\ ~UNCHANGED vars)
               \/ HotkeyZero \/ HotkeyNine \/ PauseButton
               \/ HotkeyMinus \/ HotkeyEquals)]_vars

\* C13 (as claimed): whenever an event is classified, the live Settings has
\* amount >= 1 and burst_idle_ms >= 0.
C13_ClampedWhenClassified ==
    [][(InputStep /\ ~UNCHANGED vars) =>
           (Live.amount >= 1 /\ Live.burst_idle_ms >= 0)]_vars

\* The value of the last count notification on a queue (<<>> if none)
LastCount(q) ==
    LET ks == {k \in 1..Len(q) : q[k].type = "count"}
    IN  IF ks = {} THEN <<>>
        ELSE q[CHOOSE k \in ks : \A j \in ks : j <= k].value

\* C14 (as claimed): a step of an input event, of the increment/decrement
\* hotkeys or of set_count that changes the count appends exactly one count
\* notification, which carries the new count; and whenever the worker is
\* not inside a settings replacement (every operation has completed), the
\* last count notification on update_q, if there is one, carries the live
\* count.
C14_CountNotified ==
    /\ [][(count' # count
              /\ (InputStep \/ HotkeyMinus \/ HotkeyEquals \/ HotkeyZero)) =>
             /\ Cardinality({k \in 1..Len(Appended) :
                                Appended[k].type = "count"}) = 1
             /\ LastCount(Appended) = <<count'>>]_vars
    /\ []((workerpc \notin {"swap", "report"} /\ LastCount(update_q) # <<>>)
              => LastCount(update_q) = <<count>>)

\* C15 (as claimed): every accepted tracked-input event, in every mode,
\* appends exactly one sequence-progress notification, which carries
\* sequence_presses as the event leaves it.
C15_SequenceProgressNotified ==
    [][(InputStep /\ ~UNCHANGED vars) =>
           \E k \in 1..Len(Appended) :
               /\ Appended[k] = Msg("sequence_presses", sequence_presses')
               /\ \A j \in 1..Len(Appended) :
                      Appended[j].type = "sequence_presses" => j = k]_vars

\* stop() has returned and run() has left its loop
Stopped == mainpc \in {"stopped", "done"} /\ workerpc = "exited"

\* C16 (as claimed): once stop() has returned and the worker's loop has
\* exited, neither the tracking hook nor the hotkeys are installed, and no
\* input event or hotkey changes the count.
C16_StopReleasesHooks ==
    /\ [](Stopped => (tracking = "none" /\ ~hotkeys))
    /\ [][Stopped => count' = count]_vars

\* C17 (as claimed): once stop() has returned and run() has exited, a
\* settings update (the one save_settings sends from main()), set_count and
\* toggle_pause change neither the count, the sequence state, the pause
\* flag nor any other field of the live Settings, and put no notification
\* on update_q.
C17_SendAfterStopIsNoOp ==
    [][(Stopped /\ \/ \E r \in BOOLEAN, a \in AmountInputs, i \in {-1, 0} :
                          FinalSave(r, a, i)
                   \/ HotkeyZero
                   \/ HotkeyNine) =>
           /\ Live' = Live
           /\ UNCHANGED <<count, sequence_presses, burst_count_tracker,
                          update_q>>]_vars

\* C18 (as claimed): in burst mode an input event advances the count only
\* if no event has advanced it before, or an idle gap longer than the idle
\* window has passed since: also when set_count or a settings swap came in
\* the middle of the sequence.
C18_BurstNoRecount ==
    [][(InputStep /\ Burst(Live) /\ count' # count) =>
           \/ counted_run = "none"
           \/ IdleGap(Live, last_press_time, now)]_vars

\* C18 (amended): in burst mode, between two advances of the count by input
\* events there is an idle gap longer than the idle window, or a set_count or
\* a settings swap (which zero sequence_presses, so that the next event is
\* again the first of its sequence).
C18_BurstRecountsOnlyAfterReset ==
    [][(InputStep /\ Burst(Live) /\ count' # count) =>
           \/ counted_run \in {"none", "reset"}
           \/ IdleGap(Live, last_press_time, now)]_vars

\* an event advanced the count, set_count or a swap followed, and the next
\* event, within the idle window, advanced the count again
C18_Witness ==
    /\ Burst(Live) /\ ~Live.is_paused
    /\ counted_run = "recounted"
    /\ sequence_presses = 1 /\ count = 1

\* The closing check of an event taken now fires
Closing ==
    /\ Live.burst_idle_ms > 0
    /\ last_press_time # 0
    /\ now - last_press_time > Live.burst_idle_ms

\* C19: for every accepted non-rapid event, with "closing" standing for
\* idle window > 0, last_press_time set and now - last_press_time strictly
\* greater than the idle window: sequence_presses becomes 1 if closing and
\* sequence_presses + 1 otherwise (so it is >= 1), and last_press_time
\* becomes now; a burst-completed status is put exactly if closing and
\* sequence_presses > 0, before every other notification of the event, and
\* carries burst_count_tracker + 1; burst_count_tracker grows by one exactly
\* then (unless that very event meets the multi-burst threshold, which
\* clears it).  In particular the first event of a run (last_press_time
\* unset) puts no burst-completed status.
C19_ClosingCheckFirst ==
    [][(InputStep /\ ~UNCHANGED vars /\ ~Live.is_rapid_mode) =>
           LET completes == Closing /\ sequence_presses > 0
               marks == {k \in 1..Len(Appended) :
                             IsStatus(Appended[k], "Burst Completed")}
               tracker == burst_count_tracker + IF completes THEN 1 ELSE 0
           IN  /\ sequence_presses' = (IF Closing THEN 0 ELSE sequence_presses) + 1
               /\ sequence_presses' >= 1
               /\ last_press_time' = now
               /\ marks = IF completes THEN {1} ELSE {}
               /\ completes => Appended[1].value[2] = tracker
               /\ \/ burst_count_tracker' = tracker
                  \/ /\ burst_count_tracker' = 0
                     /\ MultiBurst(Live) /\ sequence_presses' = 1
                     /\ tracker >= Live.amount
               /\ last_press_time = 0 => marks = {}]_vars

\* an event more than the idle window after the one before closed a
\* sequence that had presses: its burst-completed status leads the queue,
\* and the event is the first press of the new sequence
C19_Witness ==
    /\ Len(update_q) >= 2
    /\ IsStatus(update_q[1], "Burst Completed")
    /\ sequence_presses = 1
    /\ last_press_time = now /\ now >= Epoch + 2 * GapUnit

\* The sequences of the current run that an idle gap has closed: every burst
\* but the one in progress
ClosedInRun == Max(0, run.bursts - 1)

\* C20 (as claimed): over a run of unpaused events, burst_count_tracker is
\* the number of sequences closed by an idle gap since the count last
\* advanced in multi-burst mode, and stays 0 in burst (amount 1) and
\* multi-click mode.
C20_TrackerOnlyInMultiBurst ==
    run.ok =>
        /\ MultiBurst(Live) =>
               burst_count_tracker = ClosedInRun - Live.amount * run.adv
        /\ (Burst(Live) \/ MultiClick(Live)) => burst_count_tracker = 0

\* C20 (amended): over a run of unpaused events, burst_count_tracker is the
\* number of sequences closed by an idle gap since the count last advanced
\* in multi-burst mode; in burst mode (amount 1) it is the number of
\* sequences closed since the last settings swap or set_count, and counting
\* does not clear it; in multi-click mode it stays 0, and no event changes
\* it.
C20_TrackerCountsClosedSequences ==
    /\ [](run.ok =>
            /\ MultiBurst(Live) =>
                   burst_count_tracker = ClosedInRun - Live.amount * run.adv
            /\ Burst(Live) => burst_count_tracker = ClosedInRun
            /\ MultiClick(Live) => burst_count_tracker = 0)
    /\ [][(InputStep /\ MultiClick(Live)) =>
              burst_count_tracker' = burst_count_tracker]_vars

\* burst mode: two bursts were counted one by one, and the one that an idle
\* gap has closed is still in burst_count_tracker
C20_Witness ==
    /\ run.ok /\ Burst(Live)
    /\ run.bursts = 2 /\ count = 2
    /\ burst_count_tracker = 1

\* A step of the key callback in the session of bursts
BurstInputStep == \E ev \in KeyEvents : KeyCallbackWithin(ev, MaxBurstSeq)

C22_WorkerTerminates ==
    /\ (~is_running) ~> (workerpc = "exited")
    /\ [][(~is_running /\ Len(setting_q') < Len(setting_q)) =>
              (workerpc = "body" /\ workerpc' = "loop")]_vars
    /\ [][(~is_running /\ workerpc' = "body") => workerpc = "body"]_vars

\* stop() came during a pass; the pass applied the waiting Settings (and set
\* the hooks up again), and the worker then left its loop
C22_Witness ==
    /\ ~is_running /\ workerpc = "exited"
    /\ setting_q = <<>> /\ hotkeys
    /\ mainpc = "stopped"

\* update_settings is called: by apply_inputs or by the Reset Count button
Enqueue ==
    \/ PanelInit
    \/ \E r \in BOOLEAN, a \in AmountInputs, i \in {-1, 0} : ApplyInputs(r, a, i)
    \/ ResetButton

\* C23: update_settings puts its Settings at the tail of setting_q and
\* nothing else is removed or reordered; the worker takes exactly the head,
\* one request per pass, and makes it the live Settings, so that when the
\* queue runs empty the live Settings is the one enqueued last; with the
\* worker scheduled fairly the requests keep being applied until none is
\* left; and the Reset button's enqueue can always be taken while the
\* model's bound on the queue leaves room.
C23_SettingsNeverDropped ==
    /\ [][setting_q' # setting_q =>
              \/ /\ Enqueue
                 /\ \E x \in {SharedRef, CopyRef([settings EXCEPT !.count = 0])} :
                        setting_q' = Append(setting_q, x)
              \/ /\ SwapStep
                 /\ setting_q' = Tail(setting_q)
                 /\ core_settings' = Head(setting_q)
                 /\ setting_q' = <<>> =>
                        core_settings' = setting_q[Len(setting_q)]]_vars
    /\ ([]<><<SwapStep>>_vars) \/ (<>[](setting_q = <<>>))
    /\ []((mainpc = "mainloop" /\ Len(setting_q) < MaxSettingQ) =>
              ENABLED <<ResetButton>>_vars)

\* the Reset button's copy was queued ahead of an edit of the panel: the
\* worker has applied the copy and its notifications wait for the overlay;
\* the edit is next
C23_Witness ==
    /\ workerpc = "loop"
    /\ ~core_settings.shared
    /\ setting_q = <<SharedRef>>
    /\ Len(update_q) >= 3
    /\ settings.is_rapid_mode # core_settings.val.is_rapid_mode

\* C24: in multi-burst mode burst_count_tracker is at most amount - 1 in
\* every state between events, whether or not counting is paused: the event
\* that closes the amount-th sequence clears it within the same call; inside
\* that call, after the closing check, it is at most amount.
C24_TrackerBelowAmount ==
    /\ [](MultiBurst(Live) =>
             /\ burst_count_tracker <= Live.amount - 1
             /\ close_sequence(CoreAcc, Live, now).burst_count_tracker
                    <= Live.amount)
    /\ [][(BurstInputStep /\ MultiBurst(Live) /\ Live.is_paused
              /\ close_sequence(CoreAcc, Live, now).burst_count_tracker
                     = Live.amount) =>
             (burst_count_tracker' = 0 /\ count' = count)]_vars

\* paused, the first event after the amount-th closed sequence has reported
\* "Multi-Burst Count" and cleared the tracker without counting
C24_Witness ==
    /\ MultiBurst(Live)
    /\ Live.is_paused
    /\ burst_count_tracker = 0
    /\ sequence_presses = 1
    /\ Len(update_q) >= 2
    /\ update_q[Len(update_q) - 1] = Status(<<"Multi-Burst Count", Live.amount>>)
    /\ NoCountIn(update_q)

\* C25: is_paused of the live Settings changes only in toggle_pause (the
\* pause hotkey or the Pause/Resume button); applying a queued edit or reset
\* leaves the pause state as toggle_pause last set it.
C25_PausedOnlyByToggle ==
    [][Live.is_paused' # Live.is_paused => (HotkeyNine \/ PauseButton)]_vars

\* C26: when the hook thread has handled an event, the count is one that
\* handling the event as a whole, before or after each replacement the
\* worker made meanwhile, would have left: no update is lost.
C26_CountLinearizable ==
    [][(hook_frame # <<>> /\ hook_frame' = <<>>) =>
          count' \in serial_counts]_vars

\* C27: a step of the tracking hook, in any mode, leaves the count as it is
\* or adds exactly one; the count goes down only in the decrement hotkey, in
\* set_count, or in the worker's replacement of the settings.
C27_EventAddsZeroOrOne ==
    /\ [][InputStep => count' - count \in {0, 1}]_vars
    /\ [][count' < count => (HotkeyMinus \/ HotkeyZero \/ SwapStep)]_vars

\* outside rapid mode two events were classified since the last reset: one
\* of them added one to the count, the other nothing
C27_Witness ==
    /\ run.ok
    /\ ~Live.is_rapid_mode
    /\ run.len = 2
    /\ run.adv = 1
    /\ count = 1

====
